---- MODULE Spec2Model ----
(***************************************************************************)
(* Model of libcamera's ControlSerializer (control_serializer.cpp): the    *)
(* binary encoding of ControlInfoMap and ControlList, the handle that      *)
(* links a ControlList to its ControlInfoMap, and the serializer's caches. *)
(*                                                                         *)
(* Memory is modelled byte by byte.  A ByteStreamBuffer is a window        *)
(* (base, size) on a memory with a cursor and an overflow flag.            *)
(***************************************************************************)
EXTENDS Integers, Sequences, FiniteSets, TLC

\* ------------------------------------------------------------------------
\* Wire constants
\* ------------------------------------------------------------------------

\* enum ControlType, in the order of the ControlValueSize table
ControlTypeNone == 0
ControlTypeBool == 1
ControlTypeInteger32 == 2
ControlTypeInteger64 == 3

ControlTypes == {ControlTypeNone, ControlTypeBool, ControlTypeInteger32, ControlTypeInteger64}

\* IPA_CONTROLS_FORMAT_VERSION, the single supported header version
IPA_CONTROLS_FORMAT_VERSION == 1

\* sizeof(struct ipa_controls_header): version, handle, entries, size, data_offset
HeaderSize == 20
\* sizeof(struct ipa_control_range_entry): id, type, offset
RangeEntrySize == 12
\* sizeof(struct ipa_control_value_entry): id, count, type, offset
ValueEntrySize == 16

\* errno values returned by serialize()
ENOENT == 2
ENOSPC == 28

\* A memory cell no write has reached.
Unwritten == -1

\* What an unsigned subtraction that wrapped around yields in the model:
\* more than any buffer holds.
SizeMax == 1073741824

\* static constexpr size_t ControlValueSize[]
ControlValueSize(type) ==
    CASE type = ControlTypeNone -> 1
      [] type = ControlTypeBool -> 1
      [] type = ControlTypeInteger32 -> 4
      [] type = ControlTypeInteger64 -> 8

\* ------------------------------------------------------------------------
\* Values and their bytes
\* ------------------------------------------------------------------------

\* ControlValue: a type and a payload (0 for ControlTypeNone)
ControlValue(type, val) == [type |-> type, val |-> val]
NoneValue == ControlValue(ControlTypeNone, 0)

\* Byte k of the two's complement representation of v (floor division).
ByteOf(v, k) ==
    LET p == CASE k = 0 -> 1 [] k = 1 -> 256 [] k = 2 -> 65536 [] k = 3 -> 16777216
    IN (v \div p) % 256

\* The bytes of the magnitude of v: a representation that drops the sign.
LE32Magnitude(v) ==
    LET a == IF v < 0 THEN -v ELSE v
    IN <<ByteOf(a, 0), ByteOf(a, 1), ByteOf(a, 2), ByteOf(a, 3)>>

\* A 32-bit integer as 4 little-endian bytes.
LE32(v) == <<ByteOf(v, 0), ByteOf(v, 1), ByteOf(v, 2), ByteOf(v, 3)>>

\* uint64_t data = value.get<int64_t>(): the value modulo 2^64, as 8
\* little-endian bytes (the model's values are within 32 bits, so the upper
\* four bytes are the sign extension).
LE64(v) == LE32(v) \o (IF v < 0 THEN <<255, 255, 255, 255>> ELSE <<0, 0, 0, 0>>)

RECURSIVE Unsigned(_)
\* Little-endian bytes as an unsigned number.
Unsigned(bytes) ==
    IF bytes = <<>> THEN 0 ELSE bytes[1] + 256 * Unsigned(Tail(bytes))

\* Little-endian bytes read back as a signed (two's complement) number.
Signed(bytes) ==
    IF bytes[Len(bytes)] >= 128
    THEN -Unsigned(SubSeq([k \in 1..Len(bytes) |-> 255 - bytes[k]], 1, Len(bytes))) - 1
    ELSE Unsigned(bytes)

\* ------------------------------------------------------------------------
\* ByteStreamBuffer
\* ------------------------------------------------------------------------

\* A buffer over a memory: the window [base, base + size), the cursor pos
\* relative to base, and the overflow flag.
Buffer(base, size) == [base |-> base, size |-> size, pos |-> 0, overflow |-> FALSE]

\* The buffer a failed carveOut() returns.
NullBuffer == Buffer(0, 0)

\* A fresh memory of cap bytes.
NewMemory(cap) == SubSeq([k \in 1..cap |-> Unwritten], 1, cap)

\* ByteStreamBuffer::write(): rejected, setting the overflow flag, when the
\* bytes do not fit or the flag is already set.
BufWrite(mem, b, bytes) ==
    IF b.overflow THEN [mem |-> mem, buf |-> b]
    ELSE IF b.pos + Len(bytes) > b.size
    THEN [mem |-> mem, buf |-> [b EXCEPT !.overflow = TRUE]]
    ELSE [mem |-> SubSeq(mem, 1, b.base + b.pos) \o bytes
                    \o SubSeq(mem, b.base + b.pos + Len(bytes) + 1, Len(mem)),
          buf |-> [b EXCEPT !.pos = @ + Len(bytes)]]

\* ByteStreamBuffer::read(): ok tells whether the n bytes were read.
BufRead(mem, b, n) ==
    IF b.overflow THEN [ok |-> FALSE, bytes |-> <<>>, buf |-> b]
    ELSE IF b.pos + n > b.size
    THEN [ok |-> FALSE, bytes |-> <<>>, buf |-> [b EXCEPT !.overflow = TRUE]]
    ELSE [ok |-> TRUE,
          bytes |-> SubSeq(mem, b.base + b.pos + 1, b.base + b.pos + n),
          buf |-> [b EXCEPT !.pos = @ + n]]

\* ByteStreamBuffer::carveOut(): a sub-buffer of n bytes at the cursor, which
\* moves past it; when n bytes are not left the overflow flag is set and the
\* sub-buffer is null.
BufCarveOut(b, n) ==
    IF b.overflow THEN [sub |-> NullBuffer, buf |-> b]
    ELSE IF b.pos + n > b.size
    THEN [sub |-> NullBuffer, buf |-> [b EXCEPT !.overflow = TRUE]]
    ELSE [sub |-> Buffer(b.base + b.pos, n), buf |-> [b EXCEPT !.pos = @ + n]]

\* ------------------------------------------------------------------------
\* Wire structures
\* ------------------------------------------------------------------------

\* struct ipa_controls_header as bytes
HeaderBytes(hdr) ==
    LE32(hdr.version) \o LE32(hdr.handle) \o LE32(hdr.entries)
        \o LE32(hdr.size) \o LE32(hdr.data_offset)

\* struct ipa_control_range_entry as bytes
RangeEntryBytes(entry) == LE32(entry.id) \o LE32(entry.type) \o LE32(entry.offset)

\* struct ipa_control_value_entry as bytes
ValueEntryBytes(entry) ==
    LE32(entry.id) \o LE32(entry.count) \o LE32(entry.type) \o LE32(entry.offset)

\* Bytes from..from+3 of a struct as an unsigned 32-bit field.
Field(bytes, from) == Unsigned(SubSeq(bytes, from, from + 3))

ParseHeader(bytes) ==
    [version |-> Field(bytes, 1), handle |-> Field(bytes, 5), entries |-> Field(bytes, 9),
     size |-> Field(bytes, 13), data_offset |-> Field(bytes, 17)]

ParseRangeEntry(bytes) ==
    [id |-> Field(bytes, 1), type |-> Field(bytes, 5), offset |-> Field(bytes, 9)]

ParseValueEntry(bytes) ==
    [id |-> Field(bytes, 1), count |-> Field(bytes, 5), type |-> Field(bytes, 9),
     offset |-> Field(bytes, 13)]

\* size_t arithmetic a - b: wraps around below zero.
SizeSub(a, b) == IF a < b THEN SizeMax ELSE a - b

\* ------------------------------------------------------------------------
\* binarySize
\* ------------------------------------------------------------------------

\* binarySize(const ControlValue &)
BinarySizeValue(value) == ControlValueSize(value.type)

\* binarySize(const ControlRange &)
BinarySizeRange(range) == BinarySizeValue(range.min) + BinarySizeValue(range.max)

RECURSIVE RangesSize(_, _)
\* for (const auto &ctrl : info) size += binarySize(ctrl.second)
RangesSize(info, i) ==
    IF i > Len(info) THEN 0 ELSE BinarySizeRange(info[i].range) + RangesSize(info, i + 1)

RECURSIVE ValuesSize(_, _)
\* for (const auto &ctrl : list) size += binarySize(ctrl.second)
ValuesSize(ctrls, i) ==
    IF i > Len(ctrls) THEN 0 ELSE BinarySizeValue(ctrls[i].value) + ValuesSize(ctrls, i + 1)

\* binarySize(const ControlInfoMap &)
BinarySizeInfoMap(info) == HeaderSize + Len(info) * RangeEntrySize + RangesSize(info, 1)

\* binarySize(const ControlList &)
BinarySizeList(list) ==
    HeaderSize + Len(list.ctrls) * ValueEntrySize + ValuesSize(list.ctrls, 1)

\* ------------------------------------------------------------------------
\* store and load
\* ------------------------------------------------------------------------

\* store(const ControlValue &, ByteStreamBuffer &)
StoreValue(value, mem, b) ==
    CASE value.type = ControlTypeBool -> BufWrite(mem, b, <<value.val>>)
      [] value.type = ControlTypeInteger32 -> BufWrite(mem, b, LE32(value.val))
      [] value.type = ControlTypeInteger64 -> BufWrite(mem, b, LE64(value.val))
      [] OTHER -> [mem |-> mem, buf |-> b]

\* store(const ControlRange &, ByteStreamBuffer &)
StoreRange(range, mem, b) ==
    LET min == StoreValue(range.min, mem, b)
    IN StoreValue(range.max, min.mem, min.buf)

\* load<ControlValue>(): a read that fails leaves the local it was to fill
\* uninitialized, and the value is then whatever was there (junk).
LoadValue(type, mem, b, junk) ==
    CASE type = ControlTypeBool ->
           LET r == BufRead(mem, b, 1)
           IN [value |-> ControlValue(ControlTypeBool, IF r.ok THEN r.bytes[1] ELSE junk),
               buf |-> r.buf]
      [] type = ControlTypeInteger32 ->
           LET r == BufRead(mem, b, 4)
           IN [value |-> ControlValue(ControlTypeInteger32,
                                      IF r.ok THEN Signed(r.bytes) ELSE junk),
               buf |-> r.buf]
      [] type = ControlTypeInteger64 ->
           LET r == BufRead(mem, b, 8)
           IN [value |-> ControlValue(ControlTypeInteger64,
                                      IF r.ok THEN Signed(r.bytes) ELSE junk),
               buf |-> r.buf]
      [] OTHER -> [value |-> NoneValue, buf |-> b]

\* load<ControlRange>()
LoadRange(type, mem, b, junk) ==
    LET min == LoadValue(type, mem, b, junk)
        max == LoadValue(type, mem, min.buf, junk)
    IN [range |-> [min |-> min.value, max |-> max.value], buf |-> max.buf]

\* ------------------------------------------------------------------------
\* serialize
\* ------------------------------------------------------------------------

RECURSIVE SerializeRangeEntries(_, _, _)
\* serialize(ControlInfoMap): the loop over the map's entries.  s holds the
\* memory and the entries and values sub-buffers.
SerializeRangeEntries(info, i, s) ==
    IF i > Len(info) THEN s
    ELSE LET ctrl == info[i]
             entry == [id |-> ctrl.id.id, type |-> ctrl.id.type, offset |-> s.values.pos]
             e == BufWrite(s.mem, s.entries, RangeEntryBytes(entry))
             v == StoreRange(ctrl.range, e.mem, s.values)
         IN SerializeRangeEntries(info, i + 1,
                                  [mem |-> v.mem, entries |-> e.buf, values |-> v.buf])

\* serialize(ControlInfoMap), up to the overflow check: writes info under
\* handle into the buffer b over mem.  Yields the memory, the buffer and the
\* value returned.
SerializeInfoMapRun(info, handle, mem, b) ==
    LET entriesSize == Len(info) * RangeEntrySize
        valuesSize == RangesSize(info, 1)
        hdr == [version |-> IPA_CONTROLS_FORMAT_VERSION,
                handle |-> handle,
                entries |-> Len(info),
                size |-> HeaderSize + entriesSize + valuesSize,
                data_offset |-> HeaderSize + entriesSize]
        h == BufWrite(mem, b, HeaderBytes(hdr))
        entries == BufCarveOut(h.buf, entriesSize)
        values == BufCarveOut(entries.buf, valuesSize)
        loop == SerializeRangeEntries(info, 1,
                    [mem |-> h.mem, entries |-> entries.sub, values |-> values.sub])
    IN [mem |-> loop.mem, buf |-> values.buf, hdr |-> hdr,
        ret |-> IF values.buf.overflow THEN -ENOSPC ELSE 0]

RECURSIVE SerializeValueEntries(_, _, _)
\* serialize(ControlList): the loop over the list's entries.
SerializeValueEntries(ctrls, i, s) ==
    IF i > Len(ctrls) THEN s
    ELSE LET ctrl == ctrls[i]
             entry == [id |-> ctrl.id, count |-> 1, type |-> ctrl.value.type,
                       offset |-> s.values.pos]
             e == BufWrite(s.mem, s.entries, ValueEntryBytes(entry))
             v == StoreValue(ctrl.value, e.mem, s.values)
         IN SerializeValueEntries(ctrls, i + 1,
                                  [mem |-> v.mem, entries |-> e.buf, values |-> v.buf])

\* serialize(ControlList), from the header on: writes list under
\* infoMapHandle into the buffer b over mem.
SerializeListRun(list, infoMapHandle, mem, b) ==
    LET entriesSize == Len(list.ctrls) * ValueEntrySize
        valuesSize == ValuesSize(list.ctrls, 1)
        hdr == [version |-> IPA_CONTROLS_FORMAT_VERSION,
                handle |-> infoMapHandle,
                entries |-> Len(list.ctrls),
                size |-> HeaderSize + entriesSize + valuesSize,
                data_offset |-> HeaderSize + entriesSize]
        h == BufWrite(mem, b, HeaderBytes(hdr))
        entries == BufCarveOut(h.buf, entriesSize)
        values == BufCarveOut(entries.buf, valuesSize)
        loop == SerializeValueEntries(list.ctrls, 1,
                    [mem |-> h.mem, entries |-> entries.sub, values |-> values.sub])
    IN [mem |-> loop.mem, buf |-> values.buf, hdr |-> hdr,
        ret |-> IF values.buf.overflow THEN -ENOSPC ELSE 0]

\* ------------------------------------------------------------------------
\* std::map
\* ------------------------------------------------------------------------

\* An insertion that keeps the pair the key had: what map[key] = value is not.
MapAssignKeeping(map, key, value) == map \cup {<<key, value>>}

\* A std::map as a set of <<key, value>> pairs.  map[key] = value replaces
\* the pair of that key, if any.
MapAssign(map, key, value) == {p \in map : p[1] # key} \cup {<<key, value>>}

\* The value stored under a key that is present.
MapAt(map, key) == (CHOOSE p \in map : p[1] = key)[2]

\* A find() that stops at any pair of the map, whatever its key.
MapFindAny(map, key) == map

\* map.find(key): the pair of that key, or none (map.end()).
MapFind(map, key) == {p \in map : p[1] = key}

\* ------------------------------------------------------------------------
\* deserialize
\* ------------------------------------------------------------------------

\* What a local that a failed read() left unfilled may hold: any header
\* version, the struct left over from the previous loop iteration (stale) or
\* other bytes, and any value.
JunkVersions == {IPA_CONTROLS_FORMAT_VERSION, 0}
JunkEntry == [id |-> 0, count |-> 0, type |-> ControlTypeInteger32, offset |-> 0]
Junk == [version : JunkVersions, stale : BOOLEAN, val : {0}]

\* struct ipa_controls_header hdr; buffer.read(&hdr);
ReadHeader(mem, b, junk) ==
    LET r == BufRead(mem, b, HeaderSize)
    IN [hdr |-> IF r.ok THEN ParseHeader(r.bytes)
                ELSE [version |-> junk.version, handle |-> 0, entries |-> 0,
                      size |-> 0, data_offset |-> 0],
        buf |-> r.buf]

\* An opening that carves the sub-buffers out before it checks the version.
OpenPacketCarvingFirst(mem, b, junk) ==
    LET h == ReadHeader(mem, b, junk)
        entries == BufCarveOut(h.buf, SizeSub(h.hdr.data_offset, HeaderSize))
        values == BufCarveOut(entries.buf, SizeSub(h.hdr.size, h.hdr.data_offset))
    IN IF values.buf.overflow
       THEN [err |-> "tooSmall", hdr |-> h.hdr, buf |-> values.buf,
             entries |-> entries.sub, values |-> values.sub]
       ELSE IF h.hdr.version # IPA_CONTROLS_FORMAT_VERSION
       THEN [err |-> "version", hdr |-> h.hdr, buf |-> values.buf,
             entries |-> NullBuffer, values |-> NullBuffer]
       ELSE [err |-> "", hdr |-> h.hdr, buf |-> values.buf,
             entries |-> entries.sub, values |-> values.sub]

\* The header check and the two carveOut() calls that open both
\* deserialize<>() specializations.  err is "" when they pass.
OpenPacket(mem, b, junk) ==
    LET h == ReadHeader(mem, b, junk)
        entries == BufCarveOut(h.buf, SizeSub(h.hdr.data_offset, HeaderSize))
        values == BufCarveOut(entries.buf, SizeSub(h.hdr.size, h.hdr.data_offset))
    IN IF h.hdr.version # IPA_CONTROLS_FORMAT_VERSION
       THEN [err |-> "version", hdr |-> h.hdr, buf |-> h.buf,
             entries |-> NullBuffer, values |-> NullBuffer]
       ELSE IF values.buf.overflow
       THEN [err |-> "tooSmall", hdr |-> h.hdr, buf |-> values.buf,
             entries |-> entries.sub, values |-> values.sub]
       ELSE [err |-> "", hdr |-> h.hdr, buf |-> values.buf,
             entries |-> entries.sub, values |-> values.sub]

\* An offset check that never fails.
OffsetMismatchNever(entry, values) == FALSE

\* if (entry.offset != values.offset())
OffsetMismatch(entry, values) == entry.offset # values.pos

RECURSIVE DeserializeRangeEntries(_, _, _, _, _)
\* deserialize<ControlInfoMap>(): the loop over hdr.entries.  s holds the
\* sub-buffers, the ControlIds appended to controlIds_ (ids), the map being
\* built (ctrls, keyed by controlIds_.back().get(): the position in ids of
\* the ControlId just appended), and the content of the local struct entry.
DeserializeRangeEntries(n, i, mem, junk, s) ==
    IF i >= n \/ s.err # "" THEN s
    ELSE LET e == BufRead(mem, s.entries, RangeEntrySize)
             entry == IF e.ok THEN ParseRangeEntry(e.bytes)
                      ELSE IF junk.stale THEN s.entry
                      ELSE [id |-> JunkEntry.id, type |-> JunkEntry.type,
                            offset |-> JunkEntry.offset]
             ids == Append(s.ids, [id |-> entry.id, type |-> entry.type])
         IN IF OffsetMismatch(entry, s.values)
            THEN [s EXCEPT !.entries = e.buf, !.ids = ids, !.entry = entry,
                           !.err = "offsetMismatch"]
            ELSE LET r == LoadRange(entry.type, mem, s.values, junk.val)
                 IN DeserializeRangeEntries(n, i + 1, mem, junk,
                        [s EXCEPT !.entries = e.buf, !.values = r.buf, !.ids = ids,
                                  !.entry = entry,
                                  !.ctrls = @ \cup {[id |-> Len(ids),
                                                     range |-> r.range]}])

\* deserialize<ControlInfoMap>(), up to the insertion in the caches.
DeserializeInfoMapRun(mem, b, junk) ==
    LET open == OpenPacket(mem, b, junk)
        loop == DeserializeRangeEntries(open.hdr.entries, 0, mem, junk,
                    [entries |-> open.entries, values |-> open.values, ids |-> <<>>,
                     ctrls |-> {},
                     entry |-> [id |-> JunkEntry.id, type |-> JunkEntry.type,
                                offset |-> JunkEntry.offset],
                     err |-> ""])
    IN IF open.err # ""
       THEN [err |-> open.err, hdr |-> open.hdr, buf |-> open.buf, ids |-> <<>>,
             ctrls |-> {}, entries |-> open.entries, values |-> open.values]
       ELSE [err |-> loop.err, hdr |-> open.hdr, buf |-> open.buf, ids |-> loop.ids,
             ctrls |-> loop.ctrls, entries |-> loop.entries, values |-> loop.values]

RECURSIVE DeserializeValueEntries(_, _, _, _, _)
\* deserialize<ControlList>(): the loop over hdr.entries, filling ctrls by
\* ControlList::set(id, value).
DeserializeValueEntries(n, i, mem, junk, s) ==
    IF i >= n \/ s.err # "" THEN s
    ELSE LET e == BufRead(mem, s.entries, ValueEntrySize)
             entry == IF e.ok THEN ParseValueEntry(e.bytes)
                      ELSE IF junk.stale THEN s.entry
                      ELSE JunkEntry
         IN IF OffsetMismatch(entry, s.values)
            THEN [s EXCEPT !.entries = e.buf, !.entry = entry, !.err = "offsetMismatch"]
            ELSE LET r == LoadValue(entry.type, mem, s.values, junk.val)
                 IN DeserializeValueEntries(n, i + 1, mem, junk,
                        [s EXCEPT !.entries = e.buf, !.values = r.buf, !.entry = entry,
                                  !.ctrls = MapAssign(@, entry.id, r.value)])

\* A find_if() that reaches infoMapHandles_.end() whatever the handle.
FindByHandleNone(handles, handle) == {}

\* A find_if() that stops at any entry, whatever its handle.
FindByHandleAny(handles, handle) == handles

\* The infoMapHandles_ entries find_if() can stop at for a handle.
FindByHandle(handles, handle) == {p \in handles : p[2] = handle}

\* deserialize<ControlList>(), after the ControlInfoMap lookup: open is the
\* opened packet.
DeserializeListRun(mem, open, junk) ==
    DeserializeValueEntries(open.hdr.entries, 0, mem, junk,
        [entries |-> open.entries, values |-> open.values, ctrls |-> {},
         entry |-> JunkEntry, err |-> open.err])

\* ------------------------------------------------------------------------
\* Bounds and inputs
\* ------------------------------------------------------------------------

\* serialize(ControlInfoMap) calls between two resets
MaxSerial == 2
\* ControlIds in controlIds_ between two resets
MaxIds == 2
\* Entries of the maps and lists drawn for the serializer pair
MaxEntries == 2

\* The two ends: the pipeline handler side and the IPA side.
Pipeline == "pipeline"
Ipa == "ipa"
Inst == {Pipeline, Ipa}

ControlId(id, type) == [id |-> id, type |-> type]
ControlRange(min, max) == [min |-> min, max |-> max]
Ctrl(id, range) == [id |-> id, range |-> range]
ListCtrl(id, value) == [id |-> id, value |-> value]

\* The ControlInfoMap objects of the caller, by identity, as the sequence of
\* their entries in iteration order.
CallerInfoMapTable ==
    << <<Ctrl(ControlId(1, ControlTypeBool),
              ControlRange(ControlValue(ControlTypeBool, 0), ControlValue(ControlTypeBool, 1))),
         Ctrl(ControlId(2, ControlTypeInteger32),
              ControlRange(ControlValue(ControlTypeInteger32, 0),
                           ControlValue(ControlTypeInteger32, 100)))>>,
       <<Ctrl(ControlId(3, ControlTypeInteger64),
              ControlRange(ControlValue(ControlTypeInteger64, -2),
                           ControlValue(ControlTypeInteger64, 5)))>> >>

\* list.infoMap() of a ControlList without a ControlInfoMap
NoInfoMap == 0

\* Identities (addresses) of ControlInfoMap objects: the caller's, and the
\* one infoMaps_ holds under a handle.
CallerIdent(m) == <<"caller", m>>
CachedIdent(handle) == <<"cached", handle>>
NoIdent == <<"none", 0>>
\* controls::controls, the global id map
GlobalControls == <<"controls", 0>>

\* list.infoMap() is m for the caller's map m, NoInfoMap for none, and
\* CachedRef(h) for the map infoMaps_ holds under h, which
\* deserialize<ControlInfoMap>() returned to the caller.
CachedRef(handle) == -(handle + 1)
ListIdent(infoMap) ==
    IF infoMap > 0 THEN CallerIdent(infoMap) ELSE CachedIdent(-infoMap - 1)

ControlListOf(infoMap, ctrls) == [infoMap |-> infoMap, ctrls |-> ctrls]

\* The (id, value) sequences of the caller's ControlLists.
CallerListCtrls ==
    { <<>>,
      <<ListCtrl(1, ControlValue(ControlTypeBool, 1)),
        ListCtrl(2, ControlValue(ControlTypeInteger32, 42))>> }

\* The caller's ControlLists: each bound to one of its maps or to none.
CallerLists ==
    {ControlListOf(m, c) : m \in (1..Len(CallerInfoMapTable)) \cup {NoInfoMap},
                           c \in CallerListCtrls}

\* Handles in the headers of the packets received.
WireHandles == {0, 1}

\* A write buffer of cap bytes, a write buffer the caller has already
\* written a few bytes to, and a read buffer over received bytes.
NewBuffer(cap) == [mem |-> NewMemory(cap), buf |-> Buffer(0, cap), write |-> TRUE]
Prefix == <<170, 187>>
UsedBuffer(cap) ==
    LET w == BufWrite(NewMemory(cap + Len(Prefix)), Buffer(0, cap + Len(Prefix)), Prefix)
    IN [mem |-> w.mem, buf |-> w.buf, write |-> TRUE]
ReadBuffer(bytes) == [mem |-> bytes, buf |-> Buffer(0, Len(bytes)), write |-> FALSE]

\* The write buffers a caller passes to serialize() for an object of size
\* bytes: with exactly that room, one byte short, or partly used already.
WriteBuffers(size) == {NewBuffer(size), NewBuffer(size - 1), UsedBuffer(size)}

\* What a peer's serialize() writes for info under handle into a buffer of
\* binarySize(info) bytes, and likewise for a list.
InfoMapPacket(info, handle) ==
    SerializeInfoMapRun(info, handle, NewMemory(BinarySizeInfoMap(info)),
                        Buffer(0, BinarySizeInfoMap(info))).mem

ListPacket(list, handle) ==
    SerializeListRun(list, handle, NewMemory(BinarySizeList(list)),
                     Buffer(0, BinarySizeList(list))).mem

\* mem with the 32-bit field at from set to v.
SetField(mem, from, v) ==
    SubSeq(mem, 1, from - 1) \o LE32(v) \o SubSeq(mem, from + 4, Len(mem))

\* What may happen to a packet on its way: nothing, another version, the
\* last byte or part of the header cut off, one more entry or one byte less
\* announced in the header, the offset of entry k changed, a header of
\* another version whose other fields mean something else.
Tampers ==
    {<<"none", 0>>, <<"version", 0>>, <<"foreign", 0>>, <<"truncate", 0>>, <<"short", 0>>,
     <<"entries", 0>>, <<"size", 0>>} \cup {<<"offset", k>> : k \in 1..MaxEntries}

\* The position of the offset field of entry k (the last field of the entry).
OffsetField(entrySize, k) == HeaderSize + k * entrySize - 3

TamperApplies(mem, t) == t[1] = "offset" => ParseHeader(mem).entries >= t[2]

Tamper(mem, t, entrySize) ==
    CASE t[1] = "none" -> mem
      [] t[1] = "version" -> SetField(mem, 1, IPA_CONTROLS_FORMAT_VERSION + 1)
      [] t[1] = "foreign" ->
           SetField(SetField(SetField(mem, 1, IPA_CONTROLS_FORMAT_VERSION + 1),
                             9, ParseHeader(mem).entries + 1), 13, 0)
      [] t[1] = "truncate" -> SubSeq(mem, 1, Len(mem) - 1)
      [] t[1] = "short" -> SubSeq(mem, 1, HeaderSize - 1)
      [] t[1] = "entries" -> SetField(mem, 9, ParseHeader(mem).entries + 1)
      [] t[1] = "size" -> SetField(mem, 13, ParseHeader(mem).size - 1)
      [] t[1] = "offset" ->
           SetField(mem, OffsetField(entrySize, t[2]),
                    Field(mem, OffsetField(entrySize, t[2])) + 1)

\* The packets handed to deserialize<ControlInfoMap>() and
\* deserialize<ControlList>(): what a peer serialized, under any handle,
\* after any of the changes above.
InfoMapInputs ==
    {x \in (1..Len(CallerInfoMapTable)) \X WireHandles \X Tampers :
        TamperApplies(InfoMapPacket(CallerInfoMapTable[x[1]], x[2]), x[3])}

InfoMapInput(x) ==
    ReadBuffer(Tamper(InfoMapPacket(CallerInfoMapTable[x[1]], x[2]), x[3], RangeEntrySize))

ListInputs ==
    {x \in CallerListCtrls \X WireHandles \X Tampers :
        TamperApplies(ListPacket(ControlListOf(NoInfoMap, x[1]), x[2]), x[3])}

ListInput(x) ==
    ReadBuffer(Tamper(ListPacket(ControlListOf(NoInfoMap, x[1]), x[2]), x[3], ValueEntrySize))

\* The runs of the deserialize<>() code on these packets: the buffer, the
\* object the packet was made from, and what the code does up to the point
\* where it uses the serializer's state.
InfoMapCases ==
    {[in |-> InfoMapInput(x),
      src |-> CallerInfoMapTable[x[1]],
      run |-> DeserializeInfoMapRun(InfoMapInput(x).mem, InfoMapInput(x).buf, junk)] :
        x \in InfoMapInputs, junk \in Junk}

ListCases ==
    {[in |-> ListInput(x),
      src |-> ControlListOf(NoInfoMap, x[1]),
      open |-> OpenPacket(ListInput(x).mem, ListInput(x).buf, junk),
      run |-> DeserializeListRun(ListInput(x).mem,
                                 OpenPacket(ListInput(x).mem, ListInput(x).buf, junk), junk)] :
        x \in ListInputs, junk \in Junk}

\* ------------------------------------------------------------------------
\* State
\* ------------------------------------------------------------------------

VARIABLES
    serial_,          \* per instance: the last handle assigned
    infoMapHandles_,  \* per instance: std::map ControlInfoMap identity -> handle
    infoMaps_,        \* per instance: std::map handle -> deserialized ControlInfoMap
    controlIds_,      \* per instance: the ControlIds created by deserialization
    callerMaps,       \* the caller's ControlInfoMap objects, by identity
    callerLists,      \* the caller's ControlList objects
    buffer,           \* the ByteStreamBuffer of the call in progress, after it
    wire,             \* packets sent by the pipeline side, not yet received
    call,             \* the call that has just returned: operation, arguments, outcome
                      \* (overrun: a read() in its loop went past a sub-buffer)
    result,           \* what that deserialize<>() returned
    registered,       \* per instance: <<identity, handle>> of the maps serialized
                      \* or deserialized with success since the last reset
    invalidated       \* per instance: the handles the last reset dropped, until
                      \* a map is registered again

vars == <<serial_, infoMapHandles_, infoMaps_, controlIds_, callerMaps, callerLists, buffer, wire,
          call, result, registered, invalidated>>

\* ControlInfoMap() and ControlList(): what a failed deserialize<>() returns
EmptyInfoMap == {}
EmptyList == [infoMap |-> NoIdent, idmap |-> {}, ctrls |-> {}]

NoResult == [infoMap |-> EmptyInfoMap, list |-> EmptyList]

\* No call has returned that the caller has not yet dealt with.
NoCall ==
    [op |-> "none", inst |-> Pipeline, ret |-> 0, err |-> "", handle |-> 0,
     infoMap |-> NoInfoMap, size |-> 0, written |-> 0, in |-> NewBuffer(0),
     src |-> <<>>, overrun |-> FALSE]

\* The caller is between two calls.
Idle == call.op = "none"

\* ControlSerializer::ControlSerializer() on both sides
InitSerializers ==
    /\ serial_ = [i \in Inst |-> 0]
    /\ infoMapHandles_ = [i \in Inst |-> {}]
    /\ infoMaps_ = [i \in Inst |-> {}]
    /\ controlIds_ = [i \in Inst |-> <<>>]
    /\ buffer = NewBuffer(0)
    /\ wire = <<>>
    /\ call = NoCall
    /\ result = NoResult
    /\ registered = [i \in Inst |-> {}]
    /\ invalidated = [i \in Inst |-> {}]

Init ==
    /\ InitSerializers
    /\ callerMaps = CallerInfoMapTable
    /\ callerLists = CallerLists

\* ------------------------------------------------------------------------
\* Operations
\* ------------------------------------------------------------------------

\* A counter that stops at 1.
NextSerialStuck(serial) == IF serial = 0 THEN 1 ELSE serial

\* hdr.handle = ++serial_
NextSerial(serial) == serial + 1

\* Bytes of mem that hold something written.
WrittenBytes(mem) == Cardinality({k \in 1..Len(mem) : mem[k] # Unwritten})

\* The ControlInfoMap::Map built by deserialize<ControlInfoMap>(), keyed by
\* the index in controlIds_ of each ControlId, base ids being there before.
Rebase(ctrls, base) == {[id |-> c.id + base, range |-> c.range] : c \in ctrls}

\* The entries of a deserialized ControlInfoMap of instance i as
\* (ControlId, ControlRange) pairs.
InfoMapContent(ids, ctrls) == {Ctrl(ids[c.id], c.range) : c \in ctrls}

\* The entries of a caller's ControlInfoMap as a set.
EntrySet(info) == {info[k] : k \in 1..Len(info)}

\* The numeric ids of the id map of the ControlInfoMap of an identity on
\* instance i.
IdMapOf(i, ident) ==
    CASE ident[1] = "caller" -> {c.id.id : c \in EntrySet(callerMaps[ident[2]])}
      [] ident[1] = "cached" ->
           {controlIds_[i][c.id].id : c \in MapAt(infoMaps_[i], ident[2])}
      [] OTHER -> {}

\* int ControlSerializer::serialize(const ControlInfoMap &info, ByteStreamBuffer &buffer)
SerializeInfoMapOn(i, m, in) ==
    LET handle == NextSerial(serial_[i])
        run == SerializeInfoMapRun(callerMaps[m], handle, in.mem, in.buf)
    IN /\ serial_[i] < MaxSerial
       /\ serial_' = [serial_ EXCEPT ![i] = handle]
       /\ infoMapHandles_' =
            IF run.ret = 0
            THEN [infoMapHandles_ EXCEPT ![i] = MapAssign(@, CallerIdent(m), run.hdr.handle)]
            ELSE infoMapHandles_
       /\ buffer' = [mem |-> run.mem, buf |-> run.buf, write |-> TRUE]
       /\ call' = [op |-> "serializeInfoMap", inst |-> i, ret |-> run.ret, err |-> "",
                   handle |-> run.hdr.handle, infoMap |-> m,
                   size |-> BinarySizeInfoMap(callerMaps[m]),
                   written |-> WrittenBytes(run.mem) - WrittenBytes(in.mem),
                   in |-> in, src |-> callerMaps[m], overrun |-> FALSE]
       /\ registered' =
            IF run.ret = 0
            THEN [registered EXCEPT ![i] = @ \cup {<<CallerIdent(m), run.hdr.handle>>}]
            ELSE registered
       /\ invalidated' = IF run.ret = 0 THEN [invalidated EXCEPT ![i] = {}] ELSE invalidated
       /\ UNCHANGED <<infoMaps_, controlIds_, callerMaps, callerLists, result>>

\* A serialize(ControlList) that takes a handle from the serial counter.
SerializeListCounting(i, list, in) ==
    LET iter == MapFind(infoMapHandles_[i], ListIdent(list.infoMap))
        unknown == list.infoMap # NoInfoMap /\ iter = {}
        infoMapHandle == IF list.infoMap # NoInfoMap /\ ~unknown
                         THEN (CHOOSE p \in iter : TRUE)[2]
                         ELSE 0
        run == SerializeListRun(list, infoMapHandle, in.mem, in.buf)
    IN /\ buffer' = IF unknown THEN in
                    ELSE [mem |-> run.mem, buf |-> run.buf, write |-> TRUE]
       /\ call' = [op |-> "serializeList", inst |-> i,
                   ret |-> IF unknown THEN -ENOENT ELSE run.ret, err |-> "",
                   handle |-> infoMapHandle,
                   infoMap |-> list.infoMap,
                   size |-> BinarySizeList(list),
                   written |-> IF unknown THEN 0
                               ELSE WrittenBytes(run.mem) - WrittenBytes(in.mem),
                   in |-> in, src |-> list, overrun |-> FALSE]
       /\ serial_' = [serial_ EXCEPT ![i] = IF @ < MaxSerial THEN @ + 1 ELSE @]
       /\ UNCHANGED <<infoMapHandles_, infoMaps_, controlIds_, callerMaps, callerLists, result,
                      registered, invalidated>>

\* int ControlSerializer::serialize(const ControlList &list, ByteStreamBuffer &buffer)
SerializeListOn(i, list, in) ==
    LET iter == MapFind(infoMapHandles_[i], ListIdent(list.infoMap))
        unknown == list.infoMap # NoInfoMap /\ iter = {}
        infoMapHandle == IF list.infoMap # NoInfoMap /\ ~unknown
                         THEN (CHOOSE p \in iter : TRUE)[2]
                         ELSE 0
        run == SerializeListRun(list, infoMapHandle, in.mem, in.buf)
    IN /\ buffer' = IF unknown THEN in
                    ELSE [mem |-> run.mem, buf |-> run.buf, write |-> TRUE]
       /\ call' = [op |-> "serializeList", inst |-> i,
                   ret |-> IF unknown THEN -ENOENT ELSE run.ret, err |-> "",
                   handle |-> infoMapHandle,
                   infoMap |-> list.infoMap,
                   size |-> BinarySizeList(list),
                   written |-> IF unknown THEN 0
                               ELSE WrittenBytes(run.mem) - WrittenBytes(in.mem),
                   in |-> in, src |-> list, overrun |-> FALSE]
       /\ UNCHANGED <<serial_, infoMapHandles_, infoMaps_, controlIds_, callerMaps, callerLists, result,
                      registered, invalidated>>

\* template<> ControlInfoMap ControlSerializer::deserialize<ControlInfoMap>(ByteStreamBuffer &buffer)
\* run is the run of its code on the buffer in.
DeserializeInfoMapOn(i, in, run, src) ==
    LET map == Rebase(run.ctrls, Len(controlIds_[i]))
    IN /\ Len(controlIds_[i]) + Len(run.ids) <= MaxIds
       /\ controlIds_' = [controlIds_ EXCEPT ![i] = @ \o run.ids]
       /\ infoMaps_' =
            IF run.err = ""
            THEN [infoMaps_ EXCEPT ![i] = MapAssign(@, run.hdr.handle, map)]
            ELSE infoMaps_
       /\ infoMapHandles_' =
            IF run.err = ""
            THEN [infoMapHandles_ EXCEPT
                    ![i] = MapAssign(@, CachedIdent(run.hdr.handle), run.hdr.handle)]
            ELSE infoMapHandles_
       /\ buffer' = [mem |-> in.mem, buf |-> run.buf, write |-> FALSE]
       /\ call' = [op |-> "deserializeInfoMap", inst |-> i, ret |-> 0, err |-> run.err,
                   handle |-> run.hdr.handle, infoMap |-> NoInfoMap,
                   size |-> Len(in.mem), written |-> 0, in |-> NoCall.in, src |-> src,
                   overrun |-> run.entries.overflow \/ run.values.overflow]
       /\ result' = [result EXCEPT !.infoMap = IF run.err = "" THEN map ELSE EmptyInfoMap]
       /\ registered' =
            IF run.err = ""
            THEN [registered EXCEPT
                    ![i] = @ \cup {<<CachedIdent(run.hdr.handle), run.hdr.handle>>}]
            ELSE registered
       /\ invalidated' = IF run.err = "" THEN [invalidated EXCEPT ![i] = {}] ELSE invalidated
       /\ UNCHANGED <<serial_, callerMaps, callerLists>>

\* template<> ControlList ControlSerializer::deserialize<ControlList>(ByteStreamBuffer &buffer)
\* open and run are the runs of its code on the buffer in.
DeserializeListOn(i, in, open, run, src) ==
    LET found == FindByHandle(infoMapHandles_[i], open.hdr.handle)
        lookup == open.err = "" /\ open.hdr.handle # 0
        err == IF open.err # "" THEN open.err
               ELSE IF lookup /\ found = {} THEN "unknownInfoMap"
               ELSE run.err
    IN \E infoMap \in (IF lookup /\ found # {} THEN {p[1] : p \in found} ELSE {GlobalControls}) :
       /\ buffer' = [mem |-> in.mem, buf |-> open.buf, write |-> FALSE]
       /\ call' = [op |-> "deserializeList", inst |-> i, ret |-> 0, err |-> err,
                   handle |-> open.hdr.handle, infoMap |-> NoInfoMap,
                   size |-> Len(in.mem), written |-> 0, in |-> NoCall.in, src |-> src,
                   overrun |-> run.entries.overflow \/ run.values.overflow]
       /\ result' = [result EXCEPT
                       !.list = IF err = ""
                                THEN [infoMap |-> infoMap, idmap |-> IdMapOf(i, infoMap),
                                      ctrls |-> run.ctrls]
                                ELSE EmptyList]
       /\ UNCHANGED <<serial_, infoMapHandles_, infoMaps_, controlIds_, callerMaps, callerLists,
                      registered, invalidated>>

\* A reset() that leaves infoMapHandles_ as it is.
ResetKeepingHandles(i) ==
    /\ serial_' = [serial_ EXCEPT ![i] = 0]
    /\ infoMaps_' = [infoMaps_ EXCEPT ![i] = {}]
    /\ controlIds_' = [controlIds_ EXCEPT ![i] = <<>>]
    /\ call' = [NoCall EXCEPT !.op = "reset", !.inst = i]
    /\ registered' = [registered EXCEPT ![i] = {}]
    /\ invalidated' = [invalidated EXCEPT ![i] = {p[2] : p \in infoMapHandles_[i]}]
    /\ UNCHANGED <<infoMapHandles_, callerMaps, callerLists, buffer, wire, result>>

\* A reset() that clears controlIds_ and leaves infoMaps_ as it is.
ResetKeepingInfoMaps(i) ==
    /\ serial_' = [serial_ EXCEPT ![i] = 0]
    /\ infoMapHandles_' = [infoMapHandles_ EXCEPT ![i] = {}]
    /\ controlIds_' = [controlIds_ EXCEPT ![i] = <<>>]
    /\ call' = [NoCall EXCEPT !.op = "reset", !.inst = i]
    /\ registered' = [registered EXCEPT ![i] = {}]
    /\ invalidated' = [invalidated EXCEPT ![i] = {p[2] : p \in infoMapHandles_[i]}]
    /\ UNCHANGED <<infoMaps_, callerMaps, callerLists, buffer, wire, result>>

\* void ControlSerializer::reset()
ResetOn(i) ==
    /\ serial_' = [serial_ EXCEPT ![i] = 0]
    /\ infoMapHandles_' = [infoMapHandles_ EXCEPT ![i] = {}]
    /\ infoMaps_' = [infoMaps_ EXCEPT ![i] = {}]
    /\ controlIds_' = [controlIds_ EXCEPT ![i] = <<>>]
    /\ call' = [NoCall EXCEPT !.op = "reset", !.inst = i]
    /\ registered' = [registered EXCEPT ![i] = {}]
    /\ invalidated' = [invalidated EXCEPT ![i] = {p[2] : p \in infoMapHandles_[i]}]
    /\ UNCHANGED <<callerMaps, callerLists, buffer, wire, result>>

\* The caller is done with what the call returned (the status, the object,
\* the buffer) and is ready for the next call: calls come one after another.
Return ==
    /\ ~Idle
    /\ call' = NoCall
    /\ result' = NoResult
    /\ buffer' = NewBuffer(0)
    /\ UNCHANGED <<serial_, infoMapHandles_, infoMaps_, controlIds_, callerMaps, callerLists,
                   wire, registered, invalidated>>

\* ------------------------------------------------------------------------
\* One serializer, any caller and any input
\* ------------------------------------------------------------------------

SerializeInfoMap ==
    /\ Idle
    /\ \E m \in DOMAIN callerMaps : \E in \in WriteBuffers(BinarySizeInfoMap(callerMaps[m])) :
        SerializeInfoMapOn(Pipeline, m, in) /\ UNCHANGED wire

\* The ControlLists the caller has bound to the maps that instance i
\* deserialized and holds.
CachedLists(i) ==
    {ControlListOf(CachedRef(e[1]), c) : e \in infoMaps_[i], c \in CallerListCtrls}

SerializeList ==
    /\ Idle
    /\ \E list \in callerLists \cup CachedLists(Pipeline) :
       \E in \in WriteBuffers(BinarySizeList(list)) :
        SerializeListOn(Pipeline, list, in) /\ UNCHANGED wire

DeserializeInfoMap ==
    /\ Idle
    /\ \E c \in InfoMapCases :
        DeserializeInfoMapOn(Pipeline, c.in, c.run, c.src) /\ UNCHANGED wire

DeserializeList ==
    /\ Idle
    /\ \E c \in ListCases :
        DeserializeListOn(Pipeline, c.in, c.open, c.run, c.src) /\ UNCHANGED wire

Reset == Idle /\ ResetOn(Pipeline)

Next ==
    \/ SerializeInfoMap
    \/ SerializeList
    \/ DeserializeInfoMap
    \/ DeserializeList
    \/ Reset
    \/ Return

Spec == Init /\ [][Next]_vars

\* ------------------------------------------------------------------------
\* A serializer pair: the pipeline side serializes, the IPA side deserializes
\* what it receives, in order
\* ------------------------------------------------------------------------

\* Packets sent and not yet received
MaxWire == 2

\* The range of a control of each type.
RangeOfType(type) ==
    CASE type = ControlTypeBool ->
           ControlRange(ControlValue(ControlTypeBool, 0), ControlValue(ControlTypeBool, 1))
      [] type = ControlTypeInteger32 ->
           ControlRange(ControlValue(ControlTypeInteger32, -5),
                        ControlValue(ControlTypeInteger32, 100))
      [] type = ControlTypeInteger64 ->
           ControlRange(ControlValue(ControlTypeInteger64, -2),
                        ControlValue(ControlTypeInteger64, 5))
      [] OTHER -> ControlRange(NoneValue, NoneValue)

\* The ControlInfoMaps of up to MaxEntries controls, control k of any type.
InfoMapUniverse ==
    UNION {{SubSeq([k \in 1..n |-> Ctrl(ControlId(k, t[k]), RangeOfType(t[k]))], 1, n) :
                t \in [1..n -> ControlTypes]} : n \in 0..MaxEntries}

\* The ControlLists made for a ControlInfoMap: every control of the map set
\* to the minimum, and to the maximum, of its range.
ListMin(m, info) ==
    ControlListOf(m, SubSeq([k \in 1..Len(info) |-> ListCtrl(info[k].id.id, info[k].range.min)],
                            1, Len(info)))
ListMax(m, info) ==
    ControlListOf(m, SubSeq([k \in 1..Len(info) |-> ListCtrl(info[k].id.id, info[k].range.max)],
                            1, Len(info)))

InitPair ==
    /\ InitSerializers
    /\ callerMaps \in {<<info>> : info \in InfoMapUniverse}
    /\ callerLists = {ListMin(1, callerMaps[1]), ListMax(1, callerMaps[1])}

\* The buffers the pipeline side serializes into: sized by binarySize(), or
\* one byte short.
PairBuffers(size) == {NewBuffer(size), NewBuffer(size - 1)}

\* What is sent after a serialize() call: the buffer, if the call succeeded.
Send(kind, src) ==
    wire' = IF call'.ret = 0
            THEN Append(wire, [kind |-> kind, mem |-> buffer'.mem, src |-> src])
            ELSE wire

PairSerializeInfoMap ==
    /\ Idle
    /\ Len(wire) < MaxWire
    /\ \E m \in DOMAIN callerMaps : \E in \in PairBuffers(BinarySizeInfoMap(callerMaps[m])) :
        SerializeInfoMapOn(Pipeline, m, in) /\ Send("infoMap", callerMaps[m])

PairSerializeList ==
    /\ Idle
    /\ Len(wire) < MaxWire
    /\ \E list \in callerLists : \E in \in PairBuffers(BinarySizeList(list)) :
        SerializeListOn(Pipeline, list, in) /\ Send("list", list)

PairDeserializeInfoMap ==
    /\ Idle
    /\ wire # <<>>
    /\ Head(wire).kind = "infoMap"
    /\ \E junk \in Junk :
        LET in == ReadBuffer(Head(wire).mem)
        IN DeserializeInfoMapOn(Ipa, in, DeserializeInfoMapRun(in.mem, in.buf, junk),
                                Head(wire).src)
    /\ wire' = Tail(wire)

PairDeserializeList ==
    /\ Idle
    /\ wire # <<>>
    /\ Head(wire).kind = "list"
    /\ \E junk \in Junk :
        LET in == ReadBuffer(Head(wire).mem)
            open == OpenPacket(in.mem, in.buf, junk)
        IN DeserializeListOn(Ipa, in, open, DeserializeListRun(in.mem, open, junk),
                             Head(wire).src)
    /\ wire' = Tail(wire)

NextPair ==
    \/ PairSerializeInfoMap
    \/ PairSerializeList
    \/ PairDeserializeInfoMap
    \/ PairDeserializeList
    \/ Return

SpecPair == InitPair /\ [][NextPair]_vars

\* ------------------------------------------------------------------------
\* Properties of one serializer (Spec)
\* ------------------------------------------------------------------------

\* C1: when serialize(ControlInfoMap) fails with -ENOSPC, the serial counter,
\* infoMapHandles_, infoMaps_ and controlIds_ are all as they were before
\* the call.
C1_EnospcLeavesStateUnchanged ==
    [][(call'.op = "serializeInfoMap" /\ call'.ret = -ENOSPC)
        => /\ serial_' = serial_
           /\ infoMapHandles_' = infoMapHandles_
           /\ infoMaps_' = infoMaps_
           /\ controlIds_' = controlIds_]_vars

\* C2: when deserialize<ControlInfoMap>() fails (version, buffer too small,
\* offset mismatch at any entry), controlIds_, infoMaps_ and infoMapHandles_
\* are as they were before the call.
C2_FailedDecodeLeavesCachesUnchanged ==
    [][(call'.op = "deserializeInfoMap" /\ call'.err # "")
        => /\ controlIds_' = controlIds_
           /\ infoMaps_' = infoMaps_
           /\ infoMapHandles_' = infoMapHandles_]_vars

\* C3: in every reachable state no ControlInfoMap is registered under handle
\* 0: 0 is no value of infoMapHandles_, no key of infoMaps_, and no handle
\* written by serialize(ControlInfoMap).
C3_NoMapUnderHandleZero ==
    /\ \A i \in Inst : \A p \in infoMapHandles_[i] : p[2] # 0
    /\ \A i \in Inst : \A p \in infoMaps_[i] : p[1] # 0
    /\ call.op = "serializeInfoMap" => call.handle # 0

\* C4: in every reachable state, each ControlInfoMap serialized or
\* deserialized with success since the last reset has exactly one handle in
\* infoMapHandles_, infoMaps_ holds one map per handle, and the map it holds
\* under h has handle h in infoMapHandles_.
C4_OneHandlePerMap ==
    \A i \in Inst :
        /\ \A r \in registered[i] :
               Cardinality({p \in infoMapHandles_[i] : p[1] = r[1]}) = 1
        /\ \A e \in infoMaps_[i] :
               /\ Cardinality({p \in infoMaps_[i] : p[1] = e[1]}) = 1
               /\ {p \in infoMapHandles_[i] : p[1] = CachedIdent(e[1])}
                    = {<<CachedIdent(e[1]), e[1]>>}

\* A caller's map serialized twice, and a map of two controls deserialized.
C4_Witness ==
    /\ Cardinality({r \in registered[Pipeline] : r[1] = CallerIdent(1)}) = 2
    /\ infoMaps_[Pipeline] # {}
    /\ Len(controlIds_[Pipeline]) = 2

\* C5: serialize(ControlList) of a list whose ControlInfoMap is not in
\* infoMapHandles_ returns -ENOENT, leaves the buffer (cursor and content) and
\* the serializer state as they were; and it returns something else than
\* -ENOENT only for a list without a map or with a map serialized or
\* deserialized on this instance since the last reset.
C5_UnknownInfoMapIsEnoent ==
    [][call'.op = "serializeList"
        => /\ (/\ call'.infoMap # NoInfoMap
               /\ \A p \in infoMapHandles_[call'.inst] : p[1] # ListIdent(call'.infoMap))
              => /\ call'.ret = -ENOENT
                 /\ buffer' = call'.in
                 /\ call'.written = 0
                 /\ serial_' = serial_
                 /\ infoMapHandles_' = infoMapHandles_
                 /\ infoMaps_' = infoMaps_
                 /\ controlIds_' = controlIds_
           /\ call'.ret # -ENOENT
              => \/ call'.infoMap = NoInfoMap
                 \/ \E r \in registered[call'.inst] : r[1] = ListIdent(call'.infoMap)]_vars

\* -ENOENT for a list bound to a map while another map is registered, the
\* buffer having been written to before the call.
C5_Witness ==
    /\ call.op = "serializeList"
    /\ call.ret = -ENOENT
    /\ call.in.buf.pos > 0
    /\ buffer = call.in
    /\ infoMapHandles_[Pipeline] # {}

\* C6: deserialize<ControlList>() of a packet whose header handle is not 0
\* returns an empty list, for an unknown ControlInfoMap if not for the
\* header, unless a ControlInfoMap was serialized or deserialized with
\* success under that handle on the same instance since the last reset.
C6_UnknownHandleIsEmptyList ==
    (/\ call.op = "deserializeList"
     /\ call.handle # 0
     /\ \A r \in registered[call.inst] : r[2] # call.handle)
    => /\ result.list = EmptyList
       /\ call.err \in {"version", "tooSmall", "unknownInfoMap"}

\* A list deserialized on a fresh serializer, and refused for its handle.
C6_Witness ==
    /\ call.op = "deserializeList"
    /\ call.err = "unknownInfoMap"
    /\ call.handle # 0
    /\ serial_[Pipeline] = 0
    /\ controlIds_[Pipeline] = <<>>
    /\ invalidated[Pipeline] = {}
    /\ result.list = EmptyList

\* C7: reset() leaves serial_ at 0 and infoMapHandles_, infoMaps_ and
\* controlIds_ empty; deserialize<ControlList>() of a packet whose handle (not
\* 0) was in infoMapHandles_ before the reset then returns an empty list,
\* for an unknown ControlInfoMap if not for the header.
C7_ResetInvalidatesHandles ==
    /\ call.op = "reset"
       => /\ serial_[call.inst] = 0
          /\ infoMapHandles_[call.inst] = {}
          /\ infoMaps_[call.inst] = {}
          /\ controlIds_[call.inst] = <<>>
    /\ (/\ call.op = "deserializeList"
        /\ call.handle # 0
        /\ call.handle \in invalidated[call.inst])
       => /\ result.list = EmptyList
          /\ call.err \in {"version", "tooSmall", "unknownInfoMap"}

\* A list refused for a handle that the last reset dropped.
C7_Witness ==
    /\ call.op = "deserializeList"
    /\ call.handle # 0
    /\ call.handle \in invalidated[Pipeline]
    /\ call.err = "unknownInfoMap"
    /\ result.list = EmptyList

\* ------------------------------------------------------------------------
\* Properties of the serializer pair (SpecPair)
\* ------------------------------------------------------------------------

\* C8: a ControlInfoMap of controls of any type (None, Bool, Integer32,
\* Integer64) serialized by one serializer into a buffer of binarySize()
\* bytes and deserialized by a second, fresh serializer comes back with the
\* same (id, type, min, max) entries, and is registered there under the
\* handle of the header, the one the first serializer gave it.
C8_InfoMapRoundTrip ==
    [][(/\ call'.op = "deserializeInfoMap"
        /\ call'.inst = Ipa
        /\ controlIds_[Ipa] = <<>>
        /\ infoMaps_[Ipa] = {}
        /\ infoMapHandles_[Ipa] = {})
        => /\ call'.err = ""
           /\ InfoMapContent(controlIds_'[Ipa], result'.infoMap) = EntrySet(call'.src)
           /\ Cardinality(result'.infoMap) = Len(call'.src)
           /\ infoMaps_'[Ipa] = {<<call'.handle, result'.infoMap>>}
           /\ infoMapHandles_'[Ipa] = {<<CachedIdent(call'.handle), call'.handle>>}
           /\ <<CallerIdent(1), call'.handle>> \in registered[Pipeline]]_vars

\* A map of a None and an Integer64 control (with a negative minimum),
\* deserialized on the IPA side.
C8_Witness ==
    /\ call.op = "deserializeInfoMap"
    /\ call.inst = Ipa
    /\ call.err = ""
    /\ Cardinality(result.infoMap) = 2
    /\ \E c \in result.infoMap : c.range.min = NoneValue
    /\ \E c \in result.infoMap : c.range.min = ControlValue(ControlTypeInteger64, -2)
    /\ infoMaps_[Ipa] = {<<call.handle, result.infoMap>>}

\* C9: a ControlList bound to a ControlInfoMap, serialized after the map
\* by one serializer and deserialized after the map by a second one, comes
\* back with the same (id, value) content, bound to the second serializer's
\* copy of the map, whose ids are those of the map.
C9_ListRoundTrip ==
    (call.op = "deserializeList" /\ call.inst = Ipa)
    => /\ call.err = ""
       /\ call.src.infoMap = 1
       /\ result.list.ctrls =
            {<<call.src.ctrls[k].id, call.src.ctrls[k].value>> : k \in 1..Len(call.src.ctrls)}
       /\ Cardinality(result.list.ctrls) = Len(call.src.ctrls)
       /\ result.list.infoMap = CachedIdent(call.handle)
       /\ \E e \in infoMaps_[Ipa] :
            /\ e[1] = call.handle
            /\ InfoMapContent(controlIds_[Ipa], e[2]) = EntrySet(callerMaps[1])
       /\ result.list.idmap = {c.id.id : c \in EntrySet(callerMaps[1])}

\* A list of a None value and a negative Integer32 value, deserialized on
\* the IPA side and bound to its copy of the map.
C9_Witness ==
    /\ call.op = "deserializeList"
    /\ call.inst = Ipa
    /\ call.err = ""
    /\ <<1, NoneValue>> \in result.list.ctrls
    /\ <<2, ControlValue(ControlTypeInteger32, -5)>> \in result.list.ctrls
    /\ result.list.infoMap = CachedIdent(call.handle)
    /\ result.list.idmap = {1, 2}

\* C10: binarySize() of a ControlInfoMap or ControlList is the header size
\* plus the entry size per entry plus the ControlValueSize of each value;
\* serialize() into a buffer of exactly that many bytes succeeds and writes
\* that many bytes; into a buffer one byte smaller it returns -ENOSPC.
C10_BinarySizeIsExact ==
    (call.op \in {"serializeInfoMap", "serializeList"} /\ call.ret # -ENOENT)
    => LET info == call.op = "serializeInfoMap"
           ctrls == IF info THEN call.src ELSE call.src.ctrls
           OfType(t) == Cardinality({k \in 1..Len(ctrls) :
                            (IF info THEN ctrls[k].id.type ELSE ctrls[k].value.type) = t})
           widths == OfType(ControlTypeNone) + OfType(ControlTypeBool)
                     + 4 * OfType(ControlTypeInteger32) + 8 * OfType(ControlTypeInteger64)
       IN /\ call.size = HeaderSize
                         + Len(ctrls) * (IF info THEN RangeEntrySize ELSE ValueEntrySize)
                         + (IF info THEN 2 ELSE 1) * widths
          /\ call.in.buf.size = call.size => (call.ret = 0 /\ call.written = call.size)
          /\ call.in.buf.size = call.size - 1 => call.ret = -ENOSPC

\* ------------------------------------------------------------------------
\* The serializer pair over a channel that corrupts entry offsets
\* (SpecCorrupt)
\* ------------------------------------------------------------------------

\* The values an offset field holding old may be changed to: one of its
\* bytes changed.
NewOffsets(old) ==
    {old + 1, old + 256, old + 16777216}

\* The packet p with the offset field of one of its entries changed.
CorruptedPackets(p) ==
    LET entrySize == IF p.kind = "infoMap" THEN RangeEntrySize ELSE ValueEntrySize
    IN UNION {{SetField(p.mem, OffsetField(entrySize, k), v) :
                    v \in NewOffsets(Field(p.mem, OffsetField(entrySize, k)))} :
                k \in 1..ParseHeader(p.mem).entries}

\* The IPA side deserializes the next packet, which arrives with an offset
\* field changed.
CorruptedDeserializeInfoMap ==
    /\ Idle
    /\ wire # <<>>
    /\ Head(wire).kind = "infoMap"
    /\ \E mem \in CorruptedPackets(Head(wire)) : \E junk \in Junk :
        LET in == ReadBuffer(mem)
        IN DeserializeInfoMapOn(Ipa, in, DeserializeInfoMapRun(in.mem, in.buf, junk),
                                Head(wire).src)
    /\ wire' = Tail(wire)

CorruptedDeserializeList ==
    /\ Idle
    /\ wire # <<>>
    /\ Head(wire).kind = "list"
    /\ \E mem \in CorruptedPackets(Head(wire)) : \E junk \in Junk :
        LET in == ReadBuffer(mem)
            open == OpenPacket(in.mem, in.buf, junk)
        IN DeserializeListOn(Ipa, in, open, DeserializeListRun(in.mem, open, junk),
                             Head(wire).src)
    /\ wire' = Tail(wire)

\* The pipeline side serializes and sends the next object once the IPA
\* side has received the previous one.
LockstepSerializeInfoMap == wire = <<>> /\ PairSerializeInfoMap

LockstepSerializeList == wire = <<>> /\ PairSerializeList

NextCorrupt ==
    \/ LockstepSerializeInfoMap
    \/ LockstepSerializeList
    \/ PairDeserializeInfoMap
    \/ PairDeserializeList
    \/ CorruptedDeserializeInfoMap
    \/ CorruptedDeserializeList
    \/ Return

SpecCorrupt == InitPair /\ [][NextCorrupt]_vars

\* C11: when the offset field of an entry of a serialized ControlInfoMap or
\* ControlList has been changed to another value, whatever the entry (its
\* index, its type, None included), deserialize<>() fails (a map always on
\* the offset check) and returns an empty map or list, and caches no map.
C11_CorruptedOffsetIsDetected ==
    [][(/\ call'.op \in {"deserializeInfoMap", "deserializeList"}
        /\ wire # <<>>
        /\ buffer'.mem \in CorruptedPackets(Head(wire)))
        => /\ call'.err # ""
           /\ call'.op = "deserializeInfoMap" => call'.err = "offsetMismatch"
           /\ result'.infoMap = EmptyInfoMap
           /\ result'.list = EmptyList
           /\ infoMaps_' = infoMaps_
           /\ infoMapHandles_' = infoMapHandles_]_vars

\* A map whose second control is of type None, deserialized after the
\* offset of that second entry was changed.
C11_Witness ==
    /\ call.op = "deserializeInfoMap"
    /\ call.err = "offsetMismatch"
    /\ Len(call.src) = 2
    /\ call.src[2].id.type = ControlTypeNone
    /\ Len(controlIds_[Ipa]) = 2
    /\ result.infoMap = EmptyInfoMap

\* C12: deserialize<>() of a packet whose header version is not
\* IPA_CONTROLS_FORMAT_VERSION returns an empty map or list on the version
\* check, whatever the other header fields: the buffer's cursor is just past
\* the header, nothing was carved out, and the serializer state is as before.
C12_VersionMismatchReturnsAtOnce ==
    [][(/\ call'.op \in {"deserializeInfoMap", "deserializeList"}
        /\ Len(buffer'.mem) >= HeaderSize
        /\ ParseHeader(buffer'.mem).version # IPA_CONTROLS_FORMAT_VERSION)
        => /\ call'.err = "version"
           /\ result' = NoResult
           /\ buffer'.buf = [Buffer(0, Len(buffer'.mem)) EXCEPT !.pos = HeaderSize]
           /\ serial_' = serial_
           /\ infoMapHandles_' = infoMapHandles_
           /\ infoMaps_' = infoMaps_
           /\ controlIds_' = controlIds_]_vars

\* A packet of another version, whose size field is 0, refused by a
\* serializer that holds a deserialized map.
C12_Witness ==
    /\ call.op = "deserializeInfoMap"
    /\ call.err = "version"
    /\ Len(buffer.mem) >= HeaderSize
    /\ ParseHeader(buffer.mem).version = IPA_CONTROLS_FORMAT_VERSION + 1
    /\ ParseHeader(buffer.mem).size = 0
    /\ buffer.buf.pos = HeaderSize
    /\ infoMaps_[Pipeline] # {}

C14_OwnHandleResolvesToOwnMap ==
    \A m \in DOMAIN callerMaps :
        (/\ call.op = "deserializeList"
         /\ call.handle # 0
         /\ buffer.mem = ListPacket(call.src, call.handle)
         /\ <<CallerIdent(m), call.handle>> \in infoMapHandles_[call.inst])
        => /\ call.err = ""
           /\ result.list.infoMap = CallerIdent(m)
           /\ result.list.idmap = {c.id.id : c \in EntrySet(callerMaps[m])}

\* C15: deserialize<>() returns either an empty map or list, or one whose
\* entries were all read inside the carved entries and values sub-buffers: a
\* packet whose header announces more entries or more value bytes than the
\* sub-buffers hold, so that a read() of the loop goes past one of them, is
\* refused with an empty result.
C15_NoResultFromOverrun ==
    call.op \in {"deserializeInfoMap", "deserializeList"}
    => \/ call.err # "" /\ result = NoResult
       \/ call.err = "" /\ ~call.overrun

\* C16: serialize(ControlInfoMap) writes the handle serial_ + 1 and leaves
\* serial_ at it, nothing but reset() changes serial_ otherwise, and reset()
\* leaves it at 0: the first map serialized by a fresh or reset serializer
\* has handle 1, and each handle is greater than those of all the maps
\* serialized before it since the last reset.
C16_FreshHandlePerSerialize ==
    [][\A i \in Inst :
        /\ (call'.op = "serializeInfoMap" /\ call'.inst = i)
           => /\ call'.handle = serial_[i] + 1
              /\ serial_'[i] = call'.handle
              /\ \A r \in registered[i] : r[1][1] = "caller" => r[2] < call'.handle
              /\ call'.written >= HeaderSize
                 => Field(buffer'.mem, call'.in.buf.pos + 5) = call'.handle
        /\ (call'.op = "reset" /\ call'.inst = i) => serial_'[i] = 0
        /\ ~(call'.op \in {"serializeInfoMap", "reset"} /\ call'.inst = i)
           => serial_'[i] = serial_[i]]_vars

\* A second map serialized, under handle 2, after the first and a
\* deserialization.
C16_Witness ==
    /\ call.op = "serializeInfoMap"
    /\ call.ret = 0
    /\ call.handle = 2
    /\ Field(buffer.mem, call.in.buf.pos + 5) = 2
    /\ \E r \in registered[Pipeline] : r[1][1] = "caller" /\ r[2] = 1
    /\ controlIds_[Pipeline] # <<>>

\* C17: a successful deserialize<ControlInfoMap>() of a packet of handle h
\* leaves the map it returns as the one map infoMaps_ holds under h, and
\* that map registered under h in infoMapHandles_; and every
\* deserialize<ControlList>() that succeeds on a packet of handle h while
\* infoMaps_ holds a map under h returns a list bound to that map, with its
\* ids.
C17_ListBoundToLastDeserializedMap ==
    [][/\ (call'.op = "deserializeInfoMap" /\ call'.err = "")
          => /\ {e \in infoMaps_'[call'.inst] : e[1] = call'.handle}
                  = {<<call'.handle, result'.infoMap>>}
             /\ <<CachedIdent(call'.handle), call'.handle>> \in infoMapHandles_'[call'.inst]
       /\ (/\ call'.op = "deserializeList"
           /\ call'.err = ""
           /\ call'.handle # 0
           /\ \E e \in infoMaps_'[call'.inst] : e[1] = call'.handle)
          => /\ result'.list.infoMap = CachedIdent(call'.handle)
             /\ result'.list.idmap =
                  {controlIds_'[call'.inst][c.id].id :
                      c \in MapAt(infoMaps_'[call'.inst], call'.handle)}]_vars

\* C18: in every reachable state no two ControlInfoMap identities of
\* infoMapHandles_ have the same handle, so that find_if() in
\* deserialize<ControlList>() has at most one entry to stop at.
C18_HandlesAreUnambiguous ==
    \A i \in Inst : \A p, q \in infoMapHandles_[i] : p[2] = q[2] => p[1] = q[1]

\* C19: serialize(ControlList) and deserialize<ControlList>(), whether they
\* succeed or fail, leave serial_, infoMapHandles_, infoMaps_ and
\* controlIds_ as they were.
C19_ListCallsLeaveStateUnchanged ==
    [][call'.op \in {"serializeList", "deserializeList"}
        => /\ serial_' = serial_
           /\ infoMapHandles_' = infoMapHandles_
           /\ infoMaps_' = infoMaps_
           /\ controlIds_' = controlIds_]_vars

\* A list serialized with success by a serializer that holds a serialized
\* and a deserialized map.
C19_Witness ==
    /\ call.op = "serializeList"
    /\ call.ret = 0
    /\ call.handle # 0
    /\ serial_[Pipeline] > 0
    /\ infoMaps_[Pipeline] # {}
    /\ controlIds_[Pipeline] # <<>>

\* C20: after every step, every ControlId that a map of infoMaps_ refers to
\* is in controlIds_; a step other than reset() leaves the ControlIds that
\* controlIds_ held where they were and only appends; reset() empties
\* controlIds_ and infoMaps_ together.
C20_NoDanglingControlIds ==
    [][\A i \in Inst :
        /\ \A e \in infoMaps_'[i] : \A c \in e[2] : c.id \in 1..Len(controlIds_'[i])
        /\ IF call'.op = "reset" /\ call'.inst = i
           THEN controlIds_'[i] = <<>> /\ infoMaps_'[i] = {}
           ELSE /\ Len(controlIds_'[i]) >= Len(controlIds_[i])
                /\ SubSeq(controlIds_'[i], 1, Len(controlIds_[i])) = controlIds_[i]]_vars

\* A second map has been deserialized and stored: controlIds_ has grown
\* past the ControlIds of the first map, and both maps are held.
C20_Witness ==
    /\ call.op = "deserializeInfoMap"
    /\ call.err = ""
    /\ Len(controlIds_[Pipeline]) = 2
    /\ \E e, f \in infoMaps_[Pipeline] :
        /\ e[1] # f[1]
        /\ \E c \in e[2] : c.id = 1
        /\ \E c \in f[2] : c.id = 2

====
